---------------------------- MODULE Spec2Model ----------------------------
(***************************************************************************)
(* Model of the Automated-Email-Assistant backend:                         *)
(*   ai_core.py  AICore.analyze_email_content, _fallback_analysis,         *)
(*               generate_contextual_response, _query_knowledge_base,      *)
(*               setup_and_run_rag, _split_knowledge_base                  *)
(*   backend.py  lifespan, process_emails (the /process-emails handler)    *)
(*                                                                         *)
(* Text produced by the generative service is a sequence of lexemes        *)
(* (fences, whitespace, JSON punctuation, quotes, words); the clean-up     *)
(* regexes and json.loads are computed on those sequences.  Email bodies   *)
(* are sequences of characters, so that lower() and the substring test of  *)
(* the keyword lists are computed as the code computes them.               *)
(***************************************************************************)
EXTENDS Integers, Sequences, FiniteSets, TLC

(***************************************************************************)
(* Bounds                                                                  *)
(***************************************************************************)
\* the largest number of messages fetch_support_emails hands to one batch
MaxEmails == 3

(***************************************************************************)
(* Lexemes of generated text                                               *)
(***************************************************************************)
\* the opening fence with a language tag: three backticks and the word json
FJ == "<fence-json>"
\* a bare fence: three backticks
FENCE == "<fence>"
SP == " "
NL == "\n"
Q == "\""

IsSpace(t) == t \in {SP, NL}

RECURSIVE lstrip(_)
\* str.lstrip(): drop leading whitespace
lstrip(s) ==
    IF s # <<>> /\ IsSpace(Head(s)) THEN lstrip(Tail(s)) ELSE s

RECURSIVE rstrip(_)
\* str.rstrip(): drop trailing whitespace
rstrip(s) ==
    IF s # <<>> /\ IsSpace(s[Len(s)]) THEN rstrip(SubSeq(s, 1, Len(s) - 1)) ELSE s

\* str.strip()
strip(s) == rstrip(lstrip(s))

\* re.sub(r'^<fence>json\s*', '', text)
sub_fence_json(s) ==
    IF s # <<>> /\ Head(s) = FJ THEN lstrip(Tail(s)) ELSE s

\* re.sub(r'\s*<fence>$', '', text): the text has been stripped, so "$" is its end
sub_fence_end(s) ==
    IF s # <<>> /\ s[Len(s)] = FENCE THEN rstrip(SubSeq(s, 1, Len(s) - 1)) ELSE s

\* re.sub(r'^<fence>\s*', '', text); on a text that still starts with <fence>json
\* the pattern eats the three backticks and leaves the word json
sub_fence_start(s) ==
    IF s = <<>> THEN s
    ELSE IF Head(s) = FENCE THEN lstrip(Tail(s))
    ELSE IF Head(s) = FJ THEN <<"json">> \o Tail(s)
    ELSE s

\* re.search(r'\{.*\}', text, re.DOTALL): greedy, from the first "{" to the
\* last "}" after it; the text itself when there is no match
json_match(s) ==
    LET opens == {i \in 1..Len(s) : s[i] = "{"}
        first == CHOOSE i \in opens : \A j \in opens : i <= j
        closes == {j \in 1..Len(s) : s[j] = "}" /\ opens # {} /\ j > first}
        last == CHOOSE j \in closes : \A m \in closes : m <= j
    IN  IF opens = {} \/ closes = {} THEN s ELSE SubSeq(s, first, last)

\* ai_core.py 179-190: the text handed to json.loads
sanitize(raw) ==
    json_match(strip(sub_fence_start(sub_fence_end(sub_fence_json(strip(raw))))))

(***************************************************************************)
(* JSON values, as json.loads builds them.  Every value has the same shape: *)
(*   t  "obj" | "arr" | "str" | "num" | "lit"                               *)
(*   c  the content lexemes of a string, number or literal                  *)
(*   k  the keys of an object (each a string content), in insertion order   *)
(*   e  the members of an object (parallel to k) or elements of an array    *)
(***************************************************************************)
Str(c) == [t |-> "str", c |-> c, k |-> <<>>, e |-> <<>>]
Num(tok) == [t |-> "num", c |-> <<tok>>, k |-> <<>>, e |-> <<>>]
Lit(tok) == [t |-> "lit", c |-> <<tok>>, k |-> <<>>, e |-> <<>>]
Arr(es) == [t |-> "arr", c |-> <<>>, k |-> <<>>, e |-> es]
Obj(ks, es) == [t |-> "obj", c |-> <<>>, k |-> ks, e |-> es]
EmptyDict == Obj(<<>>, <<>>)
NoValue == Lit("undefined")

NumTokens == {"0", "42"}
LitTokens == {"null", "true", "false"}

\* key in d
Has(d, key) == \E i \in 1..Len(d.k) : d.k[i] = key

\* d[key]
Get(d, key) == d.e[CHOOSE i \in 1..Len(d.k) : d.k[i] = key]

\* d[key] = v: an existing key keeps its place, a new one is appended
DictSet(d, key, v) ==
    IF Has(d, key)
    THEN [d EXCEPT !.e = [i \in 1..Len(d.e) |-> IF d.k[i] = key THEN v ELSE d.e[i]]]
    ELSE [d EXCEPT !.k = Append(d.k, key), !.e = Append(d.e, v)]

\* dict equality: same keys, same value under each key, whatever the order
DictEq(a, b) ==
    /\ a.t = "obj" /\ b.t = "obj"
    /\ {a.k[i] : i \in 1..Len(a.k)} = {b.k[i] : i \in 1..Len(b.k)}
    /\ \A i \in 1..Len(a.k) : Get(b, a.k[i]) = a.e[i]

\* bool(v): Python truthiness of a decoded JSON value
Truthy(v) ==
    CASE v.t = "str" -> v.c # <<>>
      [] v.t = "num" -> v.c # <<"0">>
      [] v.t = "lit" -> v.c = <<"true">>
      [] v.t = "arr" -> v.e # <<>>
      [] OTHER -> v.k # <<>>

RECURSIVE SkipWS(_, _)
\* the scanner's whitespace skip: first index >= i that holds no whitespace
SkipWS(s, i) ==
    IF i <= Len(s) /\ IsSpace(s[i]) THEN SkipWS(s, i + 1) ELSE i

Fail == [ok |-> FALSE, v |-> NoValue, n |-> 0]
Ok(v, n) == [ok |-> TRUE, v |-> v, n |-> n]

\* a string literal starting at s[i] = Q: up to the next quote; a raw line
\* break inside it is a control character, which json.loads rejects
ParseString(s, i) ==
    LET ends == {j \in (i + 1)..Len(s) : s[j] = Q}
        j == CHOOSE m \in ends : \A o \in ends : m <= o
    IN  IF i > Len(s) \/ s[i] # Q \/ ends = {} THEN Fail
        ELSE IF \E m \in (i + 1)..(j - 1) : s[m] = NL THEN Fail
        ELSE Ok(Str(SubSeq(s, i + 1, j - 1)), j + 1)

RECURSIVE ParseValue(_, _)
RECURSIVE ParseMembers(_, _, _)
RECURSIVE ParseElements(_, _, _)

\* json.decoder.JSONObject after the first key's quote has been seen at s[i]
ParseMembers(s, i, acc) ==
    LET key == ParseString(s, i)
        colon == SkipWS(s, key.n)
        val == ParseValue(s, SkipWS(s, colon + 1))
        after == SkipWS(s, val.n)
        dict == DictSet(acc, key.v.c, val.v)
    IN  IF ~key.ok THEN Fail
        ELSE IF colon > Len(s) \/ s[colon] # ":" THEN Fail
        ELSE IF ~val.ok THEN Fail
        ELSE IF after > Len(s) THEN Fail
        ELSE IF s[after] = "}" THEN Ok(dict, after + 1)
        ELSE IF s[after] = "," THEN ParseMembers(s, SkipWS(s, after + 1), dict)
        ELSE Fail

\* json.decoder.JSONArray after "[" when the array is not empty
ParseElements(s, i, acc) ==
    LET val == ParseValue(s, i)
        after == SkipWS(s, val.n)
        arr == Arr(Append(acc.e, val.v))
    IN  IF ~val.ok THEN Fail
        ELSE IF after > Len(s) THEN Fail
        ELSE IF s[after] = "]" THEN Ok(arr, after + 1)
        ELSE IF s[after] = "," THEN ParseElements(s, SkipWS(s, after + 1), arr)
        ELSE Fail

\* json.scanner: one value starting at s[i]
ParseValue(s, i) ==
    IF i > Len(s) THEN Fail
    ELSE IF s[i] = "{" THEN
        LET j == SkipWS(s, i + 1)
        IN  IF j <= Len(s) /\ s[j] = "}" THEN Ok(EmptyDict, j + 1)
            ELSE ParseMembers(s, j, EmptyDict)
    ELSE IF s[i] = "[" THEN
        LET j == SkipWS(s, i + 1)
        IN  IF j <= Len(s) /\ s[j] = "]" THEN Ok(Arr(<<>>), j + 1)
            ELSE ParseElements(s, j, Arr(<<>>))
    ELSE IF s[i] = Q THEN ParseString(s, i)
    ELSE IF s[i] \in NumTokens THEN Ok(Num(s[i]), i + 1)
    ELSE IF s[i] \in LitTokens THEN Ok(Lit(s[i]), i + 1)
    ELSE Fail

\* json.loads(text): one value, whitespace around it, nothing else;
\* ok = FALSE stands for json.JSONDecodeError
json_loads(s) ==
    LET r == ParseValue(s, SkipWS(s, 1))
    IN  IF r.ok /\ SkipWS(s, r.n) = Len(s) + 1 THEN r ELSE Fail

(***************************************************************************)
(* Email bodies: sequences of characters                                   *)
(***************************************************************************)
UpperCase == <<"A", "B", "D", "E", "G", "N", "O", "R", "T", "U", "W">>
LowerCase == <<"a", "b", "d", "e", "g", "n", "o", "r", "t", "u", "w">>

\* one character of str.lower()
LowerChar(ch) ==
    IF \E i \in 1..Len(UpperCase) : UpperCase[i] = ch
    THEN LowerCase[CHOOSE i \in 1..Len(UpperCase) : UpperCase[i] = ch]
    ELSE ch

\* email_body.lower()
lower(body) == [i \in 1..Len(body) |-> LowerChar(body[i])]

\* keyword in text: the substring test
Contains(text, keyword) ==
    \E i \in 1..(Len(text) - Len(keyword) + 1) :
        SubSeq(text, i, i + Len(keyword) - 1) = keyword

\* any(keyword in text for keyword in keywords)
AnyKeyword(text, keywords) ==
    \E n \in 1..Len(keywords) : Contains(text, keywords[n])

\* ai_core.py 236-237: the list of _fallback_analysis
urgent_keywords ==
    << <<"u", "r", "g", "e", "n", "t">>,
       <<"c", "r", "i", "t", "i", "c", "a", "l">>,
       <<"a", "s", "a", "p">>,
       <<"e", "m", "e", "r", "g", "e", "n", "c", "y">>,
       <<"d", "o", "w", "n">>,
       <<"n", "o", "t", " ", "w", "o", "r", "k", "i", "n", "g">>,
       <<"b", "r", "o", "k", "e", "n">>,
       <<"i", "s", "s", "u", "e">>,
       <<"p", "r", "o", "b", "l", "e", "m">>,
       <<"h", "e", "l", "p", " ", "n", "e", "e", "d", "e", "d">>,
       <<"c", "a", "n", "n", "o", "t", " ", "a", "c", "c", "e", "s", "s">> >>

\* a list that has drifted from the one of _fallback_analysis: no "down"
repair_urgent_keywords_drifted ==
    << <<"u", "r", "g", "e", "n", "t">>,
       <<"c", "r", "i", "t", "i", "c", "a", "l">>,
       <<"a", "s", "a", "p">>,
       <<"e", "m", "e", "r", "g", "e", "n", "c", "y">>,
       <<"n", "o", "t", " ", "w", "o", "r", "k", "i", "n", "g">>,
       <<"b", "r", "o", "k", "e", "n">>,
       <<"i", "s", "s", "u", "e">>,
       <<"p", "r", "o", "b", "l", "e", "m">>,
       <<"h", "e", "l", "p", " ", "n", "e", "e", "d", "e", "d">>,
       <<"c", "a", "n", "n", "o", "t", " ", "a", "c", "c", "e", "s", "s">> >>

\* ai_core.py 200-201: the list of the repair in analyze_email_content
repair_urgent_keywords ==
    << <<"u", "r", "g", "e", "n", "t">>,
       <<"c", "r", "i", "t", "i", "c", "a", "l">>,
       <<"a", "s", "a", "p">>,
       <<"e", "m", "e", "r", "g", "e", "n", "c", "y">>,
       <<"d", "o", "w", "n">>,
       <<"n", "o", "t", " ", "w", "o", "r", "k", "i", "n", "g">>,
       <<"b", "r", "o", "k", "e", "n">>,
       <<"i", "s", "s", "u", "e">>,
       <<"p", "r", "o", "b", "l", "e", "m">>,
       <<"h", "e", "l", "p", " ", "n", "e", "e", "d", "e", "d">>,
       <<"c", "a", "n", "n", "o", "t", " ", "a", "c", "c", "e", "s", "s">> >>

\* ai_core.py 238
negative_keywords ==
    << <<"p", "r", "o", "b", "l", "e", "m">>,
       <<"i", "s", "s", "u", "e">>,
       <<"b", "r", "o", "k", "e", "n">>,
       <<"n", "o", "t", " ", "w", "o", "r", "k", "i", "n", "g">>,
       <<"e", "r", "r", "o", "r">>,
       <<"f", "a", "i", "l", "e", "d">>,
       <<"w", "r", "o", "n", "g">> >>

\* ai_core.py 239
positive_keywords ==
    << <<"t", "h", "a", "n", "k">>,
       <<"g", "r", "e", "a", "t">>,
       <<"e", "x", "c", "e", "l", "l", "e", "n", "t">>,
       <<"g", "o", "o", "d">>,
       <<"s", "a", "t", "i", "s", "f", "i", "e", "d">>,
       <<"h", "a", "p", "p", "y">> >>


\* 'App is DOWN'
Body1 == <<"A", "p", "p", " ", "i", "s", " ", "D", "O", "W", "N">>

\* 'it is broken'
Body2 == <<"i", "t", " ", "i", "s", " ", "b", "r", "o", "k", "e", "n">>

\* 'Thank you'
Body3 == <<"T", "h", "a", "n", "k", " ", "y", "o", "u">>

\* 'hello'
Body4 == <<"h", "e", "l", "l", "o">>

\* 'download ok'
Body5 == <<"d", "o", "w", "n", "l", "o", "a", "d", " ", "o", "k">>

\* 'Great but wrong'
Body6 == <<"G", "r", "e", "a", "t", " ", "b", "u", "t", " ", "w", "r", "o", "n", "g">>

\* 'URGENT'
Body7 == <<"U", "R", "G", "E", "N", "T">>

\* ''
Body8 == <<>>

Bodies == {Body1, Body2, Body3, Body4, Body5, Body6, Body7, Body8}

(***************************************************************************)
(* Analysis dictionaries                                                   *)
(***************************************************************************)
K_sentiment == <<"sentiment">>
K_priority == <<"priority">>
K_summary == <<"summary">>
K_extracted_info == <<"extracted_info">>

Positive == Str(<<"Positive">>)
Negative == Str(<<"Negative">>)
Neutral == Str(<<"Neutral">>)
Urgent == Str(<<"Urgent">>)
NotUrgent == Str(<<"Not Urgent">>)

\* priority.lower() on the two values priority can hold at ai_core.py 255
priority_lower(p) == IF p = Urgent THEN "urgent" ELSE "not urgent"

\* the priority the urgency keywords give a body (ai_core.py 244)
fallback_priority(email_body) ==
    IF AnyKeyword(lower(email_body), urgent_keywords) THEN Urgent ELSE NotUrgent

\* a test of the positive keywords before the negative ones
fallback_sentiment_positive_first(email_body) ==
    IF AnyKeyword(lower(email_body), positive_keywords) THEN Positive
    ELSE IF AnyKeyword(lower(email_body), negative_keywords) THEN Negative
    ELSE Neutral

\* the sentiment the keyword lists give a body (ai_core.py 247-252)
fallback_sentiment(email_body) ==
    IF AnyKeyword(lower(email_body), negative_keywords) THEN Negative
    ELSE IF AnyKeyword(lower(email_body), positive_keywords) THEN Positive
    ELSE Neutral

\* AICore._fallback_analysis
fallback_analysis(email_body) ==
    LET priority == fallback_priority(email_body)
        sentiment == fallback_sentiment(email_body)
        summary == Str(<<"Customer email requiring ", priority_lower(priority),
                         " attention">>)
    IN  Obj(<<K_sentiment, K_priority, K_summary, K_extracted_info>>,
            <<sentiment, priority, summary, EmptyDict>>)

\* a repair that tests only for the missing key and keeps any value present
repair_sentiment_absent_only(analysis) ==
    IF ~Has(analysis, K_sentiment)
    THEN DictSet(analysis, K_sentiment, Neutral)
    ELSE analysis

\* ai_core.py 195-196
repair_sentiment(analysis) ==
    IF ~Has(analysis, K_sentiment)
         \/ Get(analysis, K_sentiment) \notin {Positive, Negative, Neutral}
    THEN DictSet(analysis, K_sentiment, Neutral)
    ELSE analysis

\* ai_core.py 198-205
repair_priority(analysis, email_body) ==
    IF ~Has(analysis, K_priority)
         \/ Get(analysis, K_priority) \notin {Urgent, NotUrgent}
    THEN IF AnyKeyword(lower(email_body), repair_urgent_keywords)
         THEN DictSet(analysis, K_priority, Urgent)
         ELSE DictSet(analysis, K_priority, NotUrgent)
    ELSE analysis

\* ai_core.py 207-208
repair_summary(analysis) ==
    IF ~Has(analysis, K_summary) \/ ~Truthy(Get(analysis, K_summary))
    THEN DictSet(analysis, K_summary, Str(<<"Customer inquiry requiring assistance">>))
    ELSE analysis

\* ai_core.py 210-211
repair_extracted_info(analysis) ==
    IF ~Has(analysis, K_extracted_info)
    THEN DictSet(analysis, K_extracted_info, EmptyDict)
    ELSE analysis

(***************************************************************************)
(* Outcomes of a call: a returned value, or an exception that leaves it    *)
(***************************************************************************)
Returned(v) == [raised |-> FALSE, v |-> v]
Raised == [raised |-> TRUE, v |-> NoValue]
NotCalled == [raised |-> FALSE, v |-> NoValue]

(***************************************************************************)
(* The generative service: generate_content(prompt) and response.text.     *)
(*   kind "text"        the call returns and response.text is the text     *)
(*   kind "raise"       the call or response.text raises an exception that *)
(*                      is not a json.JSONDecodeError                      *)
(*   kind "raise_json"  it raises a json.JSONDecodeError (for one,         *)
(*                      requests.exceptions.JSONDecodeError is a subclass) *)
(***************************************************************************)
GenText(text) == [kind |-> "text", text |-> text]
GenRaise == [kind |-> "raise", text |-> <<>>]
GenRaiseJSON == [kind |-> "raise_json", text |-> <<>>]

\* a validation that treats a decoded value that is not a dict as an empty
\* dict and repairs it
validate_and_fix_any_value(parsed, email_body) ==
    LET dict == IF parsed.t # "obj" THEN EmptyDict ELSE parsed
    IN  Returned(repair_extracted_info(repair_summary(
            repair_priority(repair_sentiment(dict), email_body))))

\* AICore.analyze_email_content, lines 192-213: the decoded value, validated
\* and repaired.  The membership test and the item assignment of 195-196
\* raise TypeError on every decoded value that is not a dict (a number, a
\* literal: "in" is not defined; a str or a list: the index or the item
\* assignment is not), and the handler of 221-223 returns the fallback
validate_and_fix(parsed, email_body) ==
    IF parsed.t # "obj" THEN Returned(fallback_analysis(email_body))
    ELSE Returned(repair_extracted_info(repair_summary(
             repair_priority(repair_sentiment(parsed), email_body))))

\* the handler of ai_core.py 215-219: it prints response_text, a local that
\* is unbound when the exception left line 178 or 179, and the
\* UnboundLocalError raised inside the handler leaves the function
on_json_decode_error(response_text_bound, email_body) ==
    IF response_text_bound THEN Returned(fallback_analysis(email_body)) ELSE Raised

\* AICore.analyze_email_content
analyze_email_content(email_body, gen) ==
    IF gen.kind = "raise" THEN Returned(fallback_analysis(email_body))
    ELSE IF gen.kind = "raise_json" THEN on_json_decode_error(FALSE, email_body)
    ELSE LET parsed == json_loads(sanitize(gen.text))
         IN  IF ~parsed.ok THEN on_json_decode_error(TRUE, email_body)
             ELSE validate_and_fix(parsed.v, email_body)

(***************************************************************************)
(* The vector index: AICore.collection is None until setup_and_run_rag has *)
(* obtained the collection; docs are the stored chunks, in id order        *)
(***************************************************************************)
NoCollection == [open |-> FALSE, docs |-> <<>>]
Collection(docs) == [open |-> TRUE, docs |-> docs]

(***************************************************************************)
(* The knowledge file and AICore._split_knowledge_base.  A text is a       *)
(* sequence of lexemes: the prefixes Q: and A:, words, SP and NL           *)
(***************************************************************************)
\* the largest number of lines of a knowledge text
MaxLines == 4

Q_PREFIX == "Q:"
A_PREFIX == "A:"

RECURSIVE split_lines(_)
\* str.split('\n'): the text between the newlines, at least one piece
split_lines(s) ==
    IF \A i \in 1..Len(s) : s[i] # NL THEN <<s>>
    ELSE LET k == CHOOSE i \in 1..Len(s) : s[i] = NL /\ \A j \in 1..(i - 1) : s[j] # NL
         IN  <<SubSeq(s, 1, k - 1)>> \o split_lines(SubSeq(s, k + 1, Len(s)))

\* line.startswith(prefix), for a prefix that is one lexeme
startswith(line, prefix) == line # <<>> /\ Head(line) = prefix

RECURSIVE join(_)
\* ' '.join(parts)
join(parts) ==
    IF parts = <<>> THEN <<>>
    ELSE IF Len(parts) = 1 THEN parts[1]
    ELSE parts[1] \o <<SP>> \o join(Tail(parts))

\* current_question: None (ai_core.py 104) or the text of the last Q: line
NoQuestion == [none |-> TRUE, text |-> <<>>]
Question(text) == [none |-> FALSE, text |-> text]

\* ai_core.py 117-121 and 137-141: the dict of one pair
kb_chunk(question, answer_text) ==
    [question |-> question, answer |-> answer_text,
     text |-> question \o <<SP>> \o answer_text]

\* a save that does not test current_question
save_pair_any_question(chunks, current_question, current_answer) ==
    IF current_answer # <<>> /\ strip(join(current_answer)) # <<>>
    THEN Append(chunks, kb_chunk(current_question.text, strip(join(current_answer))))
    ELSE chunks

\* ai_core.py 114-121 and 134-141: the pair is saved when the question is
\* neither None nor empty, the answer list is not empty and the joined,
\* stripped answer is not empty
save_pair(chunks, current_question, current_answer) ==
    IF ~current_question.none /\ current_question.text # <<>> /\ current_answer # <<>>
    THEN LET answer_text == strip(join(current_answer))
         IN  IF answer_text # <<>>
             THEN Append(chunks, kb_chunk(current_question.text, answer_text))
             ELSE chunks
    ELSE chunks

\* ai_core.py 112-125: a Q: line saves the pair before it and starts a new one
on_question(st, line) ==
    [chunks |-> save_pair(st.chunks, st.current_question, st.current_answer),
     current_question |-> Question(strip(Tail(line))),
     current_answer |-> <<>>]

\* an A: line whose text is appended to the answer accumulated so far
on_answer_appending(st, line) ==
    [st EXCEPT !.current_answer = Append(@, strip(Tail(line)))]

\* ai_core.py 127-128: an A: line starts the answer list anew
on_answer(st, line) == [st EXCEPT !.current_answer = <<strip(Tail(line))>>]

\* a loop that leaves the lines without a prefix out of the answer
on_continuation_ignored(st, line) == st

\* ai_core.py 130-131: a line without a prefix is appended to a started answer
on_continuation(st, line) ==
    IF st.current_answer # <<>>
    THEN [st EXCEPT !.current_answer = Append(@, line)]
    ELSE st

\* ai_core.py 108-131: the body of the loop for one line
split_line(st, raw) ==
    LET line == strip(raw)
    IN  IF line = <<>> THEN st
        ELSE IF startswith(line, Q_PREFIX) THEN on_question(st, line)
        ELSE IF startswith(line, A_PREFIX) THEN on_answer(st, line)
        ELSE on_continuation(st, line)

RECURSIVE split_loop(_, _)
\* ai_core.py 107: for line in lines
split_loop(lines, st) ==
    IF lines = <<>> THEN st
    ELSE split_loop(Tail(lines), split_line(st, Head(lines)))

\* ai_core.py 102: content.strip().split('\n')
kb_lines(content) == split_lines(strip(content))

\* AICore._split_knowledge_base
split_knowledge_base(content) ==
    LET st == split_loop(kb_lines(content), [chunks |-> <<>>, current_question |-> NoQuestion,
                                 current_answer |-> <<>>])
    IN  save_pair(st.chunks, st.current_question, st.current_answer)

\* ids counted from one
kb_chunk_id_from_one(i) == <<"kb_chunk_", i + 1>>

\* ai_core.py 77: f"kb_chunk_{i}"
kb_chunk_id(i) == <<"kb_chunk_", i>>

\* ai_core.py 70-77: the document, the metadata and the id of chunk i
Chunk(id, chunk) ==
    [id |-> id, question |-> chunk.question, answer |-> chunk.answer,
     text |-> chunk.text]

\* ai_core.py 66-77: what is handed to collection.add
kb_entries(chunks) ==
    [n \in 1..Len(chunks) |-> Chunk(kb_chunk_id(n - 1), chunks[n])]

(***************************************************************************)
(* AICore.setup_and_run_rag                                                *)
(***************************************************************************)
\* the knowledge file: there is none, it cannot be read (open or read
\* raises), or it holds a text
Missing == [kind |-> "missing", content |-> <<>>]
Unreadable == [kind |-> "unreadable", content |-> <<>>]
TextFile(content) == [kind |-> "text", content |-> content]

\* what the chromadb client does in one run: it serves both calls,
\* get_or_create_collection raises, or collection.add raises
Clients == {"served", "create_raises", "add_raises"}

\* ai_core.py 45-48: the collection named knowledge_base, created empty when
\* there is none yet
get_or_create_collection(coll) == Collection(coll.docs)

StoredIds(docs) == {docs[n].id : n \in 1..Len(docs)}

\* an add that stores an entry under an id the collection already holds a
\* second time
collection_add_duplicating(docs, entries) == docs \o entries

\* ai_core.py 80-84, collection.add: an entry whose id the collection
\* already holds is ignored, the others are stored
collection_add(docs, entries) ==
    LET IsNew(e) == e.id \notin StoredIds(docs)
    IN  docs \o SelectSeq(entries, IsNew)

\* ai_core.py 43-48 on their own: the handle after the first statement of
\* setup_and_run_rag; it is not assigned when get_or_create_collection raises
rag_open(coll, client) ==
    IF client = "create_raises" THEN coll ELSE get_or_create_collection(coll)

\* ai_core.py 88-89: except Exception prints the error
rag_except(coll) ==
    [collection |-> coll, lines |-> <<>>, chunks |-> <<>>, outcome |-> "error",
     raised |-> FALSE]

\* AICore.setup_and_run_rag: the handle it leaves, the lines and the chunks
\* of _split_knowledge_base when it was called, and which message was printed
setup_and_run_rag(coll, knowledge_file, client) ==
    IF client = "create_raises" THEN rag_except(coll)
    ELSE LET opened == get_or_create_collection(coll)
         IN  IF knowledge_file.kind = "missing"
             THEN [collection |-> opened, lines |-> <<>>, chunks |-> <<>>,
                   outcome |-> "not_found", raised |-> FALSE]
             ELSE IF knowledge_file.kind = "unreadable" THEN rag_except(opened)
             ELSE LET content == knowledge_file.content
                      chunks == split_knowledge_base(content)
                  IN  IF chunks = <<>>
                      THEN [collection |-> opened, lines |-> kb_lines(content),
                            chunks |-> chunks, outcome |-> "no_chunks", raised |-> FALSE]
                      ELSE IF client = "add_raises"
                      THEN [rag_except(opened) EXCEPT !.lines = kb_lines(content),
                                                      !.chunks = chunks]
                      ELSE [collection |->
                                Collection(collection_add(opened.docs, kb_entries(chunks))),
                            lines |-> kb_lines(content), chunks |-> chunks,
                            outcome |-> "loaded", raised |-> FALSE]

\* what collection.query answers: it raises, or it ranks the stored
\* documents and returns the n_results nearest
QueryRaise == [raised |-> TRUE, hits |-> <<>>]
QueryHits(hits) == [raised |-> FALSE, hits |-> hits]

\* the default of n_results, ai_core.py 323
n_results == 3

IsRanking(hits, n) ==
    /\ Len(hits) = (IF n < n_results THEN n ELSE n_results)
    /\ \A i \in 1..Len(hits) : hits[i] \in 1..n
    /\ \A i, j \in 1..Len(hits) : i # j => hits[i] # hits[j]

QueryAnswers(coll) ==
    {QueryRaise} \cup
    { QueryHits(h) : h \in { x \in UNION { [1..m -> 1..Len(coll.docs)] : m \in 0..n_results } :
                                IsRanking(x, Len(coll.docs)) } }

RECURSIVE format_chunks(_, _)
\* ai_core.py 348-353: "Q: ..\nA: .." blocks joined by a blank line
format_chunks(docs, hits) ==
    IF hits = <<>> THEN <<>>
    ELSE <<"Q: ">> \o docs[Head(hits)].question \o <<"\nA: ">>
         \o docs[Head(hits)].answer
         \o (IF Tail(hits) = <<>> THEN <<>> ELSE <<"\n\n">>)
         \o format_chunks(docs, Tail(hits))

\* a query whose failure path drops the handle
index_after_query_dropping(coll, answer) ==
    IF coll.open /\ answer.raised THEN NoCollection ELSE coll

\* ai_core.py 334-357: _query_knowledge_base reads self.collection and calls
\* collection.query; it assigns no attribute and stores nothing, on the
\* paths that return a sentence as on the one that returns the chunks
index_after_query(coll, answer) == coll

\* AICore._query_knowledge_base: the text it returns (it raises nothing)
query_knowledge_base(coll, answer) ==
    IF ~coll.open THEN <<"No knowledge base available.">>
    ELSE IF answer.raised THEN <<"Error retrieving knowledge base information.">>
    ELSE IF answer.hits = <<>> THEN <<"No relevant information found in knowledge base.">>
    ELSE format_chunks(coll.docs, answer.hits)

\* ai_core.py 313-321, the text of the except clause
canned_response ==
    <<"Dear Customer, ... We will get back to you with a detailed response within 24 hours. ... Customer Support Team">>

\* no except clause: the exception leaves generate_contextual_response
propagate_exception == Raised

\* ai_core.py 311-321: except Exception returns the canned template
canned_on_exception == Returned(canned_response)

\* AICore.generate_contextual_response; email_analysis is a dict.  A key
\* the dict lacks raises KeyError at 277, 279 or 280
generate_contextual_response(email_analysis, coll, answer, gen) ==
    IF ~Has(email_analysis, K_summary) THEN canned_on_exception
    ELSE IF ~Has(email_analysis, K_sentiment) \/ ~Has(email_analysis, K_priority)
         THEN canned_on_exception
    ELSE IF gen.kind # "text" THEN canned_on_exception
    ELSE Returned(strip(gen.text))

\* ai_core.py 277: retrieved_knowledge, unbound when 'summary' is missing
retrieved(email_analysis, coll, answer) ==
    IF ~Has(email_analysis, K_summary) THEN <<>>
    ELSE query_knowledge_base(coll, answer)

\* a generate_contextual_response that calls the generative service before
\* it queries the index
response_calls_generation_first(email_analysis, msg) ==
    IF ~Has(email_analysis, K_summary) THEN <<>>
    ELSE (IF ~Has(email_analysis, K_sentiment) \/ ~Has(email_analysis, K_priority)
          THEN <<>>
          ELSE <<[op |-> "respond.generate_content", msg |-> msg, arg |-> NoValue]>>)
         \o <<[op |-> "query", msg |-> msg, arg |-> Get(email_analysis, K_summary)]>>

\* the external calls generate_contextual_response makes, in order: the
\* index query once 'summary' has been read, the generative call once the
\* prompt has been built
response_calls(email_analysis, msg) ==
    IF ~Has(email_analysis, K_summary) THEN <<>>
    ELSE <<[op |-> "query", msg |-> msg, arg |-> Get(email_analysis, K_summary)]>>
         \o (IF ~Has(email_analysis, K_sentiment) \/ ~Has(email_analysis, K_priority)
             THEN <<>>
             ELSE <<[op |-> "respond.generate_content", msg |-> msg, arg |-> NoValue]>>)

(***************************************************************************)
(* backend.py                                                              *)
(***************************************************************************)
\* the ProcessedEmail model, backend.py 48-59: sentiment, priority and
\* summary are str, extracted_info is a Dict, draft_response is a str (it
\* always is); a value of another type raises ValidationError at 141-152
ProcessedEmail_valid(a) ==
    /\ Get(a, K_sentiment).t = "str"
    /\ Get(a, K_priority).t = "str"
    /\ Get(a, K_summary).t = "str"
    /\ Get(a, K_extracted_info).t = "obj"

\* backend.py 141-152
ProcessedEmail(i, body, a, draft) ==
    [id |-> i, body |-> body,
     sentiment |-> Get(a, K_sentiment), priority |-> Get(a, K_priority),
     summary |-> Get(a, K_summary), extracted_info |-> Get(a, K_extracted_info),
     draft_response |-> draft]

\* the key without its negations: Not Urgent and non-Negative sort first
sort_key_not_negated(x) ==
    <<IF x.priority = Urgent THEN 1 ELSE 0, IF x.sentiment = Negative THEN 1 ELSE 0>>

\* backend.py 166-169: the sort key, False before True
sort_key(x) ==
    <<IF x.priority # Urgent THEN 1 ELSE 0, IF x.sentiment # Negative THEN 1 ELSE 0>>

\* tuple comparison a <= b on keys
KeyLeq(a, b) == a[1] < b[1] \/ (a[1] = b[1] /\ a[2] <= b[2])

RECURSIVE stable_insert(_, _)
\* x goes after every element whose key is not greater than its own
stable_insert(sorted, x) ==
    IF sorted = <<>> THEN <<x>>
    ELSE IF KeyLeq(sort_key(Head(sorted)), sort_key(x))
         THEN <<Head(sorted)>> \o stable_insert(Tail(sorted), x)
         ELSE <<x>> \o sorted

RECURSIVE sort_emails(_)
\* list.sort(key=...): a stable sort
sort_emails(xs) ==
    IF xs = <<>> THEN <<>>
    ELSE stable_insert(sort_emails(SubSeq(xs, 1, Len(xs) - 1)), xs[Len(xs)])

\* a count that leaves out the test on the priority
CountUrgent_unfiltered(xs) == Len(xs)

\* backend.py 173: sum(1 for email in processed_emails if email.priority == 'Urgent')
CountUrgent(xs) == Cardinality({i \in 1..Len(xs) : xs[i].priority = Urgent})

\* backend.py 174: sum(1 for ... if email.sentiment == 'Negative')
CountNegative(xs) == Cardinality({i \in 1..Len(xs) : xs[i].sentiment = Negative})

\* the test of 162 left out: the batch is never reported as failed
no_success_never(count) == FALSE

\* backend.py 162: the batch failed
no_success(count) == count = 0

NoResult ==
    [status |-> "none", emails |-> <<>>, total_count |-> 0, urgent_count |-> 0,
     negative_sentiment_count |-> 0]

\* backend.py 113-118 and 180-185
ProcessEmailsResponse(xs, total, urgent, negative) ==
    [status |-> "ok", emails |-> xs, total_count |-> total, urgent_count |-> urgent,
     negative_sentiment_count |-> negative]

\* backend.py 163: raise HTTPException(status_code=500, ...), re-raised at 187-189
HTTP500 ==
    [status |-> "http500", emails |-> <<>>, total_count |-> 0, urgent_count |-> 0,
     negative_sentiment_count |-> 0]

\* backend.py 162-185
finish(processed, count) ==
    IF no_success(count) THEN HTTP500
    ELSE LET sorted == sort_emails(processed)
         IN  ProcessEmailsResponse(sorted, Len(sorted), CountUrgent(sorted),
                                   CountNegative(sorted))

\* the for loop of backend.py 125: where control goes after message i of n
next_pc(i, n) == IF i < n THEN "analyze" ELSE "finish"

\* a handler that leaves the loop instead of continuing it
except_message_break(i, n) == [pc |-> "finish", idx |-> n + 1]

\* backend.py 157-160: the handler logs and continues with the next message
except_message(i, n) == [pc |-> next_pc(i, n), idx |-> i + 1]

(***************************************************************************)
(* What the generative service may answer                                  *)
(***************************************************************************)
\* a string literal of one word
QS(word) == <<Q, word, Q>>
Absent == <<>>

\* "key": value, or nothing when the value is absent
Field(key, val) == IF val = Absent THEN <<>> ELSE <<Q, key, Q, ":", SP>> \o val

RECURSIVE JoinFields(_)
JoinFields(fs) ==
    IF fs = <<>> THEN <<>>
    ELSE IF Head(fs) = <<>> THEN JoinFields(Tail(fs))
    ELSE LET rest == JoinFields(Tail(fs))
         IN  Head(fs) \o (IF rest = <<>> THEN <<>> ELSE <<",", NL>> \o rest)

\* the text of a JSON object with the four keys, each present or absent
ObjectText(s, p, m, x) ==
    <<"{", NL>>
    \o JoinFields(<<Field("sentiment", s), Field("priority", p),
                    Field("summary", m), Field("extracted_info", x)>>)
    \o <<NL, "}">>

SentimentTexts ==
    {Absent, QS("Positive"), QS("Negative"), QS("Neutral"), QS("Angry"), <<"null">>}
PriorityTexts == {Absent, QS("Urgent"), QS("Not Urgent"), QS("High")}
SummaryTexts ==
    {Absent, <<Q, Q>>, QS("Reset my password"), <<"null">>, <<"[", Q, "Reset", Q, "]">>}
InfoTexts ==
    {Absent, <<"{", "}">>, <<"{", Q, "order", Q, ":", SP, "42", "}">>, QS("none"),
     <<"null">>}

ObjectTexts ==
    { ObjectText(s, p, m, x) :
        s \in SentimentTexts, p \in PriorityTexts, m \in SummaryTexts, x \in InfoTexts }

GoodObject ==
    ObjectText(QS("Negative"), QS("Urgent"), QS("Reset my password"), <<"{", "}">>)
CalmObject ==
    ObjectText(QS("Positive"), QS("Not Urgent"), QS("Reset my password"),
               <<"{", Q, "order", Q, ":", SP, "42", "}">>)
BareObject == ObjectText(Absent, Absent, Absent, Absent)
BadInfoObject ==
    ObjectText(QS("Neutral"), QS("Urgent"), QS("Reset my password"), QS("none"))
SadObject ==
    ObjectText(QS("Negative"), QS("Not Urgent"), QS("Reset my password"), <<"{", "}">>)

\* the same object inside fences, prose, whitespace or an array
WrappedTexts ==
    { <<FJ, NL>> \o GoodObject \o <<NL, FENCE>>,
      <<FENCE, NL>> \o GoodObject \o <<NL, FENCE, NL>>,
      <<FJ, NL>> \o GoodObject,
      <<"Sure", SP>> \o GoodObject \o <<SP, "Thanks">>,
      <<SP, NL>> \o GoodObject \o <<NL>>,
      <<"[">> \o GoodObject \o <<"]">> }

\* texts with no decodable object, and JSON whose top-level value is no object
OtherTexts ==
    { <<>>, <<SP, NL>>, <<"Sure">>,
      SubSeq(GoodObject, 1, Len(GoodObject) - 1),
      GoodObject \o <<SP>> \o GoodObject,
      <<"{", "Sure", "}", SP>> \o GoodObject,
      <<"[", "42", "]">>, QS("Reset"), <<Q, "{", "}", Q>>, <<"42">>, <<"null">>,
      <<"true">>,
      <<FJ, FJ>> }

\* every behaviour of the service in analyze_email_content
AnalyzeBehaviours ==
    {GenRaise, GenRaiseJSON}
    \cup { GenText(t) : t \in ObjectTexts \cup WrappedTexts \cup OtherTexts }

\* the behaviours drawn per message of a batch: the service raises, answers
\* prose, answers an object that needs every repair, a valid object (bare or
\* fenced), an object whose extracted_info is a string
BatchAnalyzeBehaviours ==
    { GenRaise, GenRaiseJSON, GenText(<<"Sure">>), GenText(BareObject),
      GenText(CalmObject), GenText(<<FJ, NL>> \o SadObject \o <<NL, FENCE>>),
      GenText(BadInfoObject) }

Reply == <<"Dear Customer,", NL, "please use the reset link.", NL, "Best regards">>

\* every behaviour of the service in generate_contextual_response
RespondBehaviours ==
    { GenRaise, GenRaiseJSON, GenText(<<>>), GenText(<<SP, NL>>),
      GenText(<<NL>> \o Reply \o <<NL>>) }

BatchRespondBehaviours == {GenRaise, GenText(<<NL>> \o Reply \o <<NL>>)}

\* analyses handed to generate_contextual_response by a direct caller:
\* dicts with some of the keys
DirectAnalyses ==
    { Obj(<<>>, <<>>),
      Obj(<<K_summary>>, <<Str(<<"Reset my password">>)>>),
      Obj(<<K_sentiment, K_priority>>, <<Negative, Urgent>>),
      Obj(<<K_summary, K_sentiment>>, <<Str(<<"Reset my password">>), Negative>>),
      Obj(<<K_summary, K_sentiment, K_priority>>,
          <<Str(<<"Reset my password">>), Negative, Urgent>>) }

\* the bodies of the messages of a batch
BatchBodies == {Body2}

\* what fetch_support_emails returns: a list of at most MaxEmails messages
\* (an empty one on any IMAP failure); a message's id is its position
Mailboxes(bodies, n) == UNION { [1..m -> bodies] : m \in 0..n }

(***************************************************************************)
(* Knowledge files                                                         *)
(***************************************************************************)
\* the lines a knowledge text is made of: questions and answers with and
\* without text and with blanks around them, a line without a prefix at its
\* start, a blank line
KBLines ==
    { <<Q_PREFIX, SP, "q1">>,
      <<Q_PREFIX, "q2", SP>>,
      <<Q_PREFIX>>,
      <<SP, A_PREFIX, SP, "a1">>,
      <<A_PREFIX, SP>>,
      <<"c1", SP, A_PREFIX, "c2">>,
      <<SP>> }

RECURSIVE JoinLines(_)
\* the text of a file with these lines
JoinLines(ls) ==
    IF ls = <<>> THEN <<>>
    ELSE IF Len(ls) = 1 THEN ls[1]
    ELSE ls[1] \o <<NL>> \o JoinLines(Tail(ls))

\* every text of at most MaxLines lines
KnowledgeTexts == { JoinLines(ls) : ls \in UNION { [1..n -> KBLines] : n \in 0..MaxLines } }

KnowledgeFiles == {Missing, Unreadable} \cup { TextFile(t) : t \in KnowledgeTexts }

\* two pairs
TwoPairs ==
    TextFile(JoinLines(<< <<Q_PREFIX, SP, "q1">>, <<A_PREFIX, SP, "a1">>,
                          <<Q_PREFIX, SP, "q2">>, <<A_PREFIX, SP, "a2">>, <<>> >>))

\* the same two questions, the first with another answer
TwoPairsChanged ==
    TextFile(JoinLines(<< <<Q_PREFIX, SP, "q1">>, <<A_PREFIX, SP, "a3">>,
                          <<Q_PREFIX, SP, "q2">>, <<A_PREFIX, SP, "a2">> >>))

\* one pair, not one of TwoPairs
OnePair ==
    TextFile(JoinLines(<< <<Q_PREFIX, SP, "q3">>, <<A_PREFIX, SP, "a3">>, <<"c1">> >>))

\* a question without an answer: no chunk
NoPairs == TextFile(JoinLines(<< <<Q_PREFIX, SP, "q1">> >>))

\* the files setup_and_run_rag is run on more than once
RagFiles == {Missing, Unreadable, NoPairs, TwoPairs, TwoPairsChanged, OnePair}

\* knowledge_base.txt at the start of the server
StartupFiles == {Missing, TwoPairs}

\* the number of runs of setup_and_run_rag on one AICore
MaxRuns == 2

(***************************************************************************)
(* State                                                                   *)
(***************************************************************************)
VARIABLES
    collection,        \* AICore.collection
    lines,             \* ai_core.py 102: the lines of the last _split_knowledge_base
    chunks,            \* ai_core.py 59: the chunks of the last setup_and_run_rag
    rag_runs,          \* the runs of setup_and_run_rag so far, in order
    pc,                \* where the process is: startup, idle, the steps of process_emails
    emails,            \* backend.py 109: the fetched messages (their bodies)
    idx,               \* backend.py 125: i, the message being processed
    gen_used,          \* what the service did in the last analyze_email_content
    parsed,            \* ai_core.py 192: what json.loads made of the sanitized text
    analysis,          \* backend.py 130: the outcome of analyze_email_content
    retrieved_knowledge, \* ai_core.py 277: what _query_knowledge_base returned
    gen_respond,       \* what the service did in the last generate_contextual_response
    draft_response,    \* backend.py 134: the outcome of generate_contextual_response
    processed_emails,  \* backend.py 121, in append order
    successful_count,  \* backend.py 122
    skipped,           \* the messages the handler of 157-160 skipped, with the cause
    result,            \* what process_emails answered
    log                \* the external calls of the current request, in order

vars ==
    <<collection, lines, chunks, rag_runs, pc, emails, idx, gen_used, parsed, analysis, retrieved_knowledge, gen_respond,
      draft_response, processed_emails, successful_count, skipped, result, log>>

NoGen == [kind |-> "none", text |-> <<>>]

Init ==
    /\ collection = NoCollection
    /\ lines = <<>>
    /\ chunks = <<>>
    /\ rag_runs = <<>>
    /\ pc = "startup"
    /\ emails = <<>>
    /\ idx = 0
    /\ gen_used = NoGen
    /\ parsed = Fail
    /\ analysis = NotCalled
    /\ retrieved_knowledge = <<>>
    /\ gen_respond = NoGen
    /\ draft_response = NotCalled
    /\ processed_emails = <<>>
    /\ successful_count = 0
    /\ skipped = {}
    /\ result = NoResult
    /\ log = <<>>

\* one run of setup_and_run_rag(knowledge_file) on the AICore
Ingest(files) ==
    /\ \E knowledge_file \in files, client \in Clients :
        LET run == setup_and_run_rag(collection, knowledge_file, client)
        IN  /\ collection' = run.collection
            /\ lines' = run.lines
            /\ chunks' = run.chunks
            /\ rag_runs' = Append(rag_runs,
                                  [knowledge_file |-> knowledge_file, client |-> client,
                                   outcome |-> run.outcome, raised |-> run.raised,
                                   before |-> collection])
    /\ pc' = "idle"
    /\ retrieved_knowledge' = <<>>
    /\ UNCHANGED <<emails, idx, gen_used, parsed, analysis, gen_respond, draft_response,
                   processed_emails, successful_count, skipped, result, log>>

\* backend.py 23-24, ai_core.py 43-48: the startup hook has entered
\* setup_and_run_rag, whose first statement assigns the handle unless
\* get_or_create_collection raises; the run is recorded as running
LifespanBegin ==
    /\ pc = "startup"
    /\ \E knowledge_file \in StartupFiles, client \in Clients :
        /\ collection' = rag_open(collection, client)
        /\ rag_runs' = Append(rag_runs,
                              [knowledge_file |-> knowledge_file, client |-> client,
                               outcome |-> "running", raised |-> FALSE,
                               before |-> collection])
    /\ pc' = "ingesting"
    /\ UNCHANGED <<lines, chunks, emails, idx, gen_used, parsed, analysis,
                   retrieved_knowledge, gen_respond, draft_response, processed_emails,
                   successful_count, skipped, result, log>>

\* backend.py 24-28, ai_core.py 50-89: the rest of the run, up to the return
\* of setup_and_run_rag and the yield of the hook
LifespanEnd ==
    /\ pc = "ingesting"
    /\ LET began == rag_runs[Len(rag_runs)]
           run == setup_and_run_rag(began.before, began.knowledge_file, began.client)
       IN  /\ collection' = run.collection
           /\ lines' = run.lines
           /\ chunks' = run.chunks
           /\ rag_runs' = [rag_runs EXCEPT ![Len(rag_runs)] =
                              [began EXCEPT !.outcome = run.outcome,
                                            !.raised = run.raised]]
    /\ pc' = "idle"
    /\ UNCHANGED <<emails, idx, gen_used, parsed, analysis, retrieved_knowledge,
                   gen_respond, draft_response, processed_emails, successful_count,
                   skipped, result, log>>

\* a server that routes requests to the handlers while the startup hook is
\* still running
accepting_during_startup(p) == p \in {"ingesting", "idle"}

\* backend.py 16-28 and 32-37: the hook is the app's lifespan, and a request
\* is routed to a handler only after the hook has reached its yield
accepting(p) == p = "idle"

\* a handler without the test of line 111
not_emails_never(box) == FALSE

\* backend.py 111, "if not emails": the fetched list is empty
not_emails(box) == box = <<>>

\* backend.py 103-125: fetch; an empty list is answered at once, any other
\* enters the loop, which goes to message 1 when there is one
Fetch(boxes) ==
    /\ accepting(pc)
    /\ \E box \in boxes :
        /\ emails' = box
        /\ IF not_emails(box)
           THEN /\ result' = ProcessEmailsResponse(<<>>, 0, 0, 0)
                /\ pc' = "done"
                /\ idx' = idx
           ELSE /\ result' = result
                /\ pc' = next_pc(0, Len(box))
                /\ idx' = 1
    /\ processed_emails' = <<>>
    /\ successful_count' = 0
    /\ UNCHANGED <<collection, lines, chunks, rag_runs, parsed, gen_used, analysis, retrieved_knowledge, gen_respond,
                   draft_response, skipped, log>>

\* backend.py 130: analyze_email_content on message idx; an exception that
\* leaves it is caught at 157 and the message is skipped
Analyze(behaviours) ==
    /\ pc = "analyze"
    /\ \E gen \in behaviours :
        LET out == analyze_email_content(emails[idx], gen)
            to == except_message(idx, Len(emails))
        IN  /\ gen_used' = gen
            /\ parsed' = (IF gen.kind = "text" THEN json_loads(sanitize(gen.text))
                          ELSE Fail)
            /\ analysis' = out
            /\ log' = Append(log, [op |-> "analyze.generate_content", msg |-> idx,
                                   arg |-> NoValue])
            /\ IF out.raised
               THEN /\ skipped' = skipped \cup {[msg |-> idx, cause |-> "analyze"]}
                    /\ pc' = to.pc
                    /\ idx' = to.idx
               ELSE /\ skipped' = skipped
                    /\ pc' = "respond"
                    /\ idx' = idx
    /\ UNCHANGED <<collection, lines, chunks, rag_runs, emails, retrieved_knowledge, gen_respond, draft_response,
                   processed_emails, successful_count, result>>

\* backend.py 134-137: generate_contextual_response on the analysis
Respond(behaviours) ==
    /\ pc = "respond"
    /\ \E answer \in QueryAnswers(collection), gen \in behaviours :
        /\ retrieved_knowledge' = retrieved(analysis.v, collection, answer)
        /\ gen_respond' = gen
        /\ draft_response' =
               generate_contextual_response(analysis.v, collection, answer, gen)
        /\ log' = log \o response_calls(analysis.v, idx)
        /\ collection' = index_after_query(collection, answer)
    /\ pc' = "build"
    /\ UNCHANGED <<lines, chunks, rag_runs, parsed, emails, idx, gen_used, analysis, processed_emails,
                   successful_count, skipped, result>>

\* backend.py 141-160: build the record and append it, or skip the message
\* when ProcessedEmail raises ValidationError
Build ==
    /\ pc = "build"
    /\ IF ~draft_response.raised /\ ProcessedEmail_valid(analysis.v)
       THEN /\ processed_emails' =
                   Append(processed_emails,
                          ProcessedEmail(idx, emails[idx], analysis.v, draft_response.v))
            /\ successful_count' = successful_count + 1
            /\ skipped' = skipped
            /\ pc' = next_pc(idx, Len(emails))
            /\ idx' = idx + 1
       ELSE /\ processed_emails' = processed_emails
            /\ successful_count' = successful_count
            /\ skipped' = skipped \cup {[msg |-> idx, cause |-> "build"]}
            /\ pc' = except_message(idx, Len(emails)).pc
            /\ idx' = except_message(idx, Len(emails)).idx
    /\ gen_used' = NoGen
    /\ parsed' = Fail
    /\ analysis' = NotCalled
    /\ retrieved_knowledge' = <<>>
    /\ gen_respond' = NoGen
    /\ draft_response' = NotCalled
    /\ UNCHANGED <<collection, lines, chunks, rag_runs, emails, result, log>>

\* backend.py 162-185: no success is a 500, else the sorted records and counts
Finish ==
    /\ pc = "finish"
    /\ result' = finish(processed_emails, successful_count)
    /\ pc' = "done"
    /\ UNCHANGED <<collection, lines, chunks, rag_runs, parsed, emails, idx, gen_used, analysis, retrieved_knowledge,
                   gen_respond, draft_response, processed_emails, successful_count,
                   skipped, log>>

FetchBatch == Fetch(Mailboxes(BatchBodies, MaxEmails))
AnalyzeBatch == Analyze(BatchAnalyzeBehaviours)
RespondBatch == Respond(BatchRespondBehaviours)

Next ==
    \/ LifespanBegin \/ LifespanEnd
    \/ FetchBatch \/ AnalyzeBatch \/ RespondBatch \/ Build \/ Finish

\* process_emails on batches of up to MaxEmails messages
Spec == Init /\ [][Next]_vars

(***************************************************************************)
(* The classifier and the composer on one message, under every behaviour   *)
(* of the generative service, and the composer called directly             *)
(***************************************************************************)
FetchOne == Fetch(Mailboxes(Bodies, 1))
AnalyzeAny == Analyze(AnalyzeBehaviours)
RespondAny == Respond(RespondBehaviours)

\* a direct call of generate_contextual_response(email_analysis, email_body)
DirectRespond ==
    /\ pc = "idle"
    /\ \E a \in DirectAnalyses, body \in Bodies, answer \in QueryAnswers(collection),
          gen \in RespondBehaviours :
        /\ emails' = <<body>>
        /\ analysis' = Returned(a)
        /\ retrieved_knowledge' = retrieved(a, collection, answer)
        /\ gen_respond' = gen
        /\ draft_response' = generate_contextual_response(a, collection, answer, gen)
        /\ log' = log \o response_calls(a, 1)
        /\ collection' = index_after_query(collection, answer)
    /\ pc' = "called"
    /\ idx' = 1
    /\ UNCHANGED <<lines, chunks, rag_runs, parsed, gen_used, processed_emails, successful_count, skipped,
                   result>>

NextUnit ==
    \/ LifespanBegin \/ LifespanEnd
    \/ FetchOne \/ AnalyzeAny \/ RespondAny \/ Build \/ Finish \/ DirectRespond

SpecUnit == Init /\ [][NextUnit]_vars

(***************************************************************************)
(* setup_and_run_rag on every knowledge file of at most MaxLines lines     *)
(***************************************************************************)
IngestAny == pc = "startup" /\ Ingest(KnowledgeFiles)

NextSplit == IngestAny

SpecSplit == Init /\ [][NextSplit]_vars

(***************************************************************************)
(* An AICore on which setup_and_run_rag is run up to MaxRuns times and     *)
(* _query_knowledge_base is called before, between and after the runs      *)
(***************************************************************************)
Reingest == Len(rag_runs) < MaxRuns /\ Ingest(RagFiles)

\* a call of _query_knowledge_base(query)
QueryIndex ==
    /\ pc \in {"startup", "idle"}
    /\ \E answer \in QueryAnswers(collection) :
        /\ retrieved_knowledge' = query_knowledge_base(collection, answer)
        /\ collection' = index_after_query(collection, answer)
    /\ UNCHANGED <<lines, chunks, rag_runs, parsed, pc, emails, idx, gen_used, analysis,
                   gen_respond, draft_response, processed_emails, successful_count,
                   skipped, result, log>>

NextRag == Reingest \/ QueryIndex

SpecRag == Init /\ [][NextRag]_vars

(***************************************************************************)
(* Claims about analyze_email_content and generate_contextual_response,    *)
(* checked under SpecUnit                                                  *)
(***************************************************************************)
\* analyze_email_content has returned an Analysis for the message
AnalysisReturned == pc \in {"respond", "build"} /\ ~analysis.raised

\* the call of the service failed, or its sanitized text is not JSON
GenerationFailed(gen) ==
    \/ gen.kind \in {"raise", "raise_json"}
    \/ gen.kind = "text" /\ ~json_loads(sanitize(gen.text)).ok

\* C1: whatever the body and whatever the generative service did (raised,
\* empty text, text that is not JSON, JSON missing keys, JSON with invalid
\* enum values), a returned Analysis has sentiment in {Positive, Negative,
\* Neutral} and priority in {Urgent, Not Urgent}.
C1_EnumValues ==
    AnalysisReturned =>
        /\ Has(analysis.v, K_sentiment)
        /\ Get(analysis.v, K_sentiment) \in {Positive, Negative, Neutral}
        /\ Has(analysis.v, K_priority)
        /\ Get(analysis.v, K_priority) \in {Urgent, NotUrgent}

\* the service answered an object with sentiment "Angry" and priority "High",
\* and the returned Analysis holds the repaired values
C1_Witness ==
    /\ AnalysisReturned
    /\ gen_used = GenText(ObjectText(QS("Angry"), QS("High"), QS("Reset my password"),
                                     <<"{", "}">>))
    /\ emails[1] = Body1
    /\ Get(analysis.v, K_sentiment) = Neutral
    /\ Get(analysis.v, K_priority) = Urgent

\* C2: analyze_email_content never propagates a failure: whenever the
\* generative call raises or the sanitized text fails to parse as JSON, it
\* returns exactly the fallback classifier's result for the body.
C2_FallbackOnFailure ==
    (gen_used # NoGen /\ GenerationFailed(gen_used)) =>
        /\ ~analysis.raised
        /\ DictEq(analysis.v, fallback_analysis(emails[1]))

\* C3: every returned Analysis has a summary that is a non-empty string, also
\* when the object's summary is absent, empty or of another type.
C3_SummaryNonEmptyString ==
    AnalysisReturned =>
        /\ Has(analysis.v, K_summary)
        /\ Get(analysis.v, K_summary).t = "str"
        /\ Get(analysis.v, K_summary).c # <<>>

\* C4: every returned Analysis has an extracted_info that is a mapping, also
\* when the object's extracted_info is present and is not an object.
C4_ExtractedInfoIsMapping ==
    AnalysisReturned =>
        /\ Has(analysis.v, K_extracted_info)
        /\ Get(analysis.v, K_extracted_info).t = "obj"

\* generate_contextual_response has returned or raised
ResponseDone == pc \in {"build", "called"}

\* C5: the ResponseDraft is non-empty text whatever the analysis, the body
\* and the service did, also when the service returns empty or
\* whitespace-only text without raising.
C5_DraftNonEmpty ==
    ResponseDone => (~draft_response.raised /\ draft_response.v # <<>>)

\* the index query raised inside _query_knowledge_base
QueryFailed == retrieved_knowledge = <<"Error retrieving knowledge base information.">>

\* the analysis lacks a key generate_contextual_response reads
MissingKey ==
    \/ ~Has(analysis.v, K_summary)
    \/ ~Has(analysis.v, K_sentiment)
    \/ ~Has(analysis.v, K_priority)

\* the generative calls generate_contextual_response made for the message
RespondCalls ==
    Cardinality({n \in 1..Len(log) :
                    log[n].op = "respond.generate_content" /\ log[n].msg = idx})

\* C6 as stated: generate_contextual_response never raises, invokes the
\* generative service at most once, and returns the canned template if the
\* knowledge query, a missing analysis key or the generative call raises.
C6_CannedOnAnyException ==
    ResponseDone =>
        /\ ~draft_response.raised
        /\ RespondCalls <= 1
        /\ (QueryFailed \/ MissingKey \/ gen_respond.kind # "text")
              => draft_response.v = canned_response

\* C6 amended: generate_contextual_response never raises and invokes the
\* generative service at most once; it returns the canned template if an
\* analysis key is missing or the generative call raises; an exception of
\* the index query is absorbed by _query_knowledge_base, and the response is
\* then the stripped text of the one generative call.
C6_CannedOnKeyOrGenerationError ==
    ResponseDone =>
        /\ ~draft_response.raised
        /\ RespondCalls <= 1
        /\ (MissingKey \/ gen_respond.kind # "text")
              => draft_response.v = canned_response
        /\ (QueryFailed /\ ~MissingKey /\ gen_respond.kind = "text")
              => (draft_response.v = strip(gen_respond.text) /\ RespondCalls = 1)

\* a direct call with an analysis that has no 'sentiment': the service would
\* have answered, it is not invoked, and the canned template is returned
C6_Witness ==
    /\ pc = "called"
    /\ Has(analysis.v, K_summary) /\ ~Has(analysis.v, K_sentiment)
    /\ gen_respond.kind = "text" /\ gen_respond.text # <<>>
    /\ RespondCalls = 0
    /\ draft_response = Returned(canned_response)

\* analyze_email_content has just returned the result of _fallback_analysis:
\* the generative call raised, its text is not JSON, or the JSON is not an
\* object
FallbackTaken ==
    /\ pc = "respond"
    /\ \/ gen_used.kind = "raise"
       \/ gen_used.kind = "text" /\ (~parsed.ok \/ parsed.v.t # "obj")

\* the word occurs in the body, letter case ignored
OccursIn(body, word) ==
    \E i \in 0..(Len(body) - Len(word)) :
        \A j \in 1..Len(word) : LowerChar(body[i + j]) = word[j]

SomeOccursIn(body, words) == \E n \in 1..Len(words) : OccursIn(body, words[n])

\* C19: the result of _fallback_analysis is a function of the body alone:
\* priority is Urgent iff some urgency keyword occurs in the body as a
\* case-insensitive substring, else Not Urgent; sentiment is Negative if some
\* negative keyword occurs, otherwise Positive if some positive keyword
\* occurs, otherwise Neutral; extracted_info is always empty.
C19_FallbackFromBodyAlone ==
    FallbackTaken =>
        LET body == emails[idx]
        IN  /\ Get(analysis.v, K_priority) =
                  (IF SomeOccursIn(body, urgent_keywords) THEN Urgent ELSE NotUrgent)
            /\ Get(analysis.v, K_sentiment) =
                  (IF SomeOccursIn(body, negative_keywords) THEN Negative
                   ELSE IF SomeOccursIn(body, positive_keywords) THEN Positive
                   ELSE Neutral)
            /\ Get(analysis.v, K_extracted_info) = EmptyDict

\* a body with a positive and a negative keyword and no urgency keyword:
\* Negative and Not Urgent
C19_Witness ==
    /\ FallbackTaken
    /\ emails[idx] = Body6
    /\ SomeOccursIn(Body6, positive_keywords)
    /\ Get(analysis.v, K_sentiment) = Negative
    /\ Get(analysis.v, K_priority) = NotUrgent

\* analyze_email_content has just returned: the service answered an object
\* whose priority is absent or is not one of the two values, and the repair
\* derived one
PriorityRepaired ==
    /\ pc = "respond"
    /\ gen_used.kind = "text"
    /\ parsed.ok
    /\ parsed.v.t = "obj"
    /\ \/ ~Has(parsed.v, K_priority)
       \/ Get(parsed.v, K_priority) \notin {Urgent, NotUrgent}

\* C20: for every body the priority the repair of analyze_email_content
\* derives, when the parsed priority is absent or invalid, is the priority
\* _fallback_analysis computes for the same body.
C20_RepairPriorityIsFallbackPriority ==
    PriorityRepaired =>
        Get(analysis.v, K_priority) = Get(fallback_analysis(emails[idx]), K_priority)

\* the priority "High" on a body whose only urgency keyword is "down", in
\* capitals
C20_Witness ==
    /\ PriorityRepaired
    /\ emails[idx] = Body1
    /\ gen_used = GenText(ObjectText(QS("Angry"), QS("High"), QS("Reset my password"),
                                     <<"{", "}">>))
    /\ Get(analysis.v, K_priority) = Urgent

\* analyze_email_content has just returned, and the text the service
\* answered is JSON whose top-level value is an array, a string, a number,
\* a boolean or null
NonObjectJSON ==
    /\ pc = "respond"
    /\ gen_used.kind = "text"
    /\ json_loads(gen_used.text).ok
    /\ json_loads(gen_used.text).v.t # "obj"

Done == pc = "done"
Built == {processed_emails[n].id : n \in 1..Len(processed_emails)}
SkippedIds == {s.msg : s \in skipped}
Occurrences(xs, i) == Cardinality({n \in 1..Len(xs) : xs[n].id = i})

\* C7: a generation error (the service unreachable, or malformed output of
\* any shape, parseable JSON with wrong-typed fields included) never causes
\* a message to be skipped and never makes the batch report a failure.  The
\* only exceptions in a batch of this model come from what the service did.
C7_GenerationErrorsRecovered ==
    skipped = {} /\ result.status # "http500"

\* C8: an exception raised while processing one message skips only that
\* message: every message of the batch is still processed, and each message
\* that raised no exception appears in the result exactly once.
C8_SkipOnlyFailedMessage ==
    (Done /\ emails # <<>>) =>
        /\ \A i \in 1..Len(emails) :
              Cardinality({n \in 1..Len(log) :
                  log[n].op = "analyze.generate_content" /\ log[n].msg = i}) = 1
        /\ \A i \in 1..Len(emails) :
              IF i \in SkippedIds
              THEN Occurrences(processed_emails, i) = 0 /\ Occurrences(result.emails, i) = 0
              ELSE /\ Occurrences(processed_emails, i) = 1
                   /\ result.status = "ok"
                   /\ Occurrences(result.emails, i) = 1

\* the first message was skipped and the two after it are in the result
C8_Witness ==
    /\ Done /\ Len(emails) = 3
    /\ SkippedIds = {1}
    /\ result.status = "ok"
    /\ {result.emails[n].id : n \in 1..Len(result.emails)} = {2, 3}

\* C9: process_emails answers with the HTTP 500 outcome if and only if the
\* input is not empty and no message was processed successfully; with at
\* least one success it returns the successful records and their number.
C9_HardFailureIffNoSuccess ==
    Done =>
        /\ result.status \in {"ok", "http500"}
        /\ result.status = "http500" <=> (emails # <<>> /\ Built = {})
        /\ Built # {} =>
              /\ result.status = "ok"
              /\ {result.emails[n] : n \in 1..Len(result.emails)}
                    = {processed_emails[n] : n \in 1..Len(processed_emails)}
              /\ result.total_count = Cardinality(Built)

\* a batch of two messages, both skipped, answered with the 500
C9_Witness ==
    /\ Done /\ Len(emails) = 2
    /\ SkippedIds = {1, 2}
    /\ result.status = "http500"

\* C10: the returned records are a permutation of the successfully processed
\* ones in which every Urgent record precedes every Not Urgent one, within
\* equal priority every Negative record precedes every non-Negative one, and
\* records equal on both keys keep their input order.
C10_StableSortedPermutation ==
    (Done /\ result.status = "ok") =>
        LET xs == result.emails
        IN  /\ Len(xs) = Len(processed_emails)
            /\ \A n \in 1..Len(processed_emails) :
                  \E m \in 1..Len(xs) : xs[m] = processed_emails[n]
            /\ \A a, b \in 1..Len(xs) :
                  a < b =>
                    /\ ~(xs[a].priority # Urgent /\ xs[b].priority = Urgent)
                    /\ (xs[a].priority = xs[b].priority)
                          => ~(xs[a].sentiment # Negative /\ xs[b].sentiment = Negative)
                    /\ ((xs[a].priority = Urgent) = (xs[b].priority = Urgent)
                          /\ (xs[a].sentiment = Negative) = (xs[b].sentiment = Negative))
                          => xs[a].id < xs[b].id

\* three records: the sort moved an Urgent record in front of the two Not
\* Urgent ones before it, which are equal on both keys and kept their order
C10_Witness ==
    /\ Done /\ result.status = "ok" /\ Len(result.emails) = 3
    /\ result.emails[1].id = 3 /\ result.emails[1].priority = Urgent
    /\ result.emails[2].id = 1 /\ result.emails[3].id = 2
    /\ result.emails[2].priority = NotUrgent /\ result.emails[3].priority = NotUrgent
    /\ (result.emails[2].sentiment = Negative) = (result.emails[3].sentiment = Negative)

\* C11: in a successful result total_count is the number of returned records,
\* urgent_count the number of returned records with priority Urgent and
\* negative_sentiment_count the number with sentiment Negative; a skipped
\* message is in none of the counts, so that urgent_count <= total_count and
\* negative_sentiment_count <= total_count <= number of input messages.
C11_CountsOverReturnedRecords ==
    (Done /\ result.status = "ok") =>
        LET xs == result.emails
        IN  /\ result.total_count = Len(xs)
            /\ result.urgent_count =
                  Cardinality({n \in 1..Len(xs) : xs[n].priority = Urgent})
            /\ result.negative_sentiment_count =
                  Cardinality({n \in 1..Len(xs) : xs[n].sentiment = Negative})
            /\ result.total_count = Len(emails) - Cardinality(SkippedIds)
            /\ result.urgent_count <= result.total_count
            /\ result.negative_sentiment_count <= result.total_count
            /\ result.total_count <= Len(emails)

\* three messages, one skipped; of the two returned records one is Urgent
\* and one is Negative
C11_Witness ==
    /\ Done /\ result.status = "ok" /\ Len(emails) = 3
    /\ Cardinality(SkippedIds) = 1
    /\ result.total_count = 2
    /\ result.urgent_count = 1
    /\ result.negative_sentiment_count = 1

(***************************************************************************)
(* Claims about _split_knowledge_base and the ids of setup_and_run_rag,    *)
(* checked under SpecSplit.  The pairs of a text are described here from   *)
(* its lines, by position, and compared with what the loop produced        *)
(***************************************************************************)
LastRun == rag_runs[Len(rag_runs)]

\* the last run read a text and handed it to _split_knowledge_base
SplitDone ==
    /\ rag_runs # <<>>
    /\ LastRun.knowledge_file.kind = "text"
    /\ lines # <<>>

\* the lines of the text, each without the blanks around it
FileLines == [n \in 1..Len(lines) |-> strip(lines[n])]

IsQLine(n) == FileLines[n] # <<>> /\ Head(FileLines[n]) = Q_PREFIX
IsALine(n) == FileLines[n] # <<>> /\ Head(FileLines[n]) = A_PREFIX
IsPlainLine(n) == FileLines[n] # <<>> /\ ~IsQLine(n) /\ ~IsALine(n)

\* the text of a Q: or A: line after its prefix
LineText(n) == strip(Tail(FileLines[n]))

\* the elements of a set of positions, in increasing order
InOrder(S) ==
    [k \in 1..Cardinality(S) |-> CHOOSE n \in S : Cardinality({m \in S : m < n}) = k - 1]

\* the last line of the pair that starts with the Q: line q
PairEnd(q) ==
    IF \E n \in (q + 1)..Len(FileLines) : IsQLine(n)
    THEN (CHOOSE n \in (q + 1)..Len(FileLines) :
              IsQLine(n) /\ \A m \in (q + 1)..(n - 1) : ~IsQLine(m)) - 1
    ELSE Len(FileLines)

ALinesOf(q) == {n \in (q + 1)..PairEnd(q) : IsALine(n)}

\* the A: line the answer of the pair starts from
LastALine(q) == CHOOSE n \in ALinesOf(q) : \A m \in ALinesOf(q) : m <= n

\* the lines without a prefix after that A: line
ContinuationsOf(q) == {n \in (LastALine(q) + 1)..PairEnd(q) : IsPlainLine(n)}

\* the answer text of the pair: the text of the A: line and the
\* continuation lines after it, the non-empty ones joined by one space
AnswerParts(q) ==
    LET conts == InOrder(ContinuationsOf(q))
        parts == <<LineText(LastALine(q))>> \o [k \in 1..Len(conts) |-> FileLines[conts[k]]]
        NonEmpty(t) == t # <<>>
    IN  SelectSeq(parts, NonEmpty)

RECURSIVE SpaceJoined(_)
SpaceJoined(parts) ==
    IF parts = <<>> THEN <<>>
    ELSE Head(parts) \o (IF Tail(parts) = <<>> THEN <<>> ELSE <<SP>> \o SpaceJoined(Tail(parts)))

AnswerOf(q) == IF ALinesOf(q) = {} THEN <<>> ELSE SpaceJoined(AnswerParts(q))

\* a complete pair: a Q: line with a question text, and an answer text
CompletePairs ==
    {q \in 1..Len(FileLines) : IsQLine(q) /\ LineText(q) # <<>> /\ AnswerOf(q) # <<>>}

C13_ContinuationLinesAppended ==
    SplitDone =>
        \A k \in 1..Len(chunks) :
            LET q == InOrder(CompletePairs)[k]
                a == LastALine(q)
                conts == InOrder({n \in (a + 1)..PairEnd(q) : IsPlainLine(n)})
            IN  Cardinality(ALinesOf(q)) = 1 =>
                  chunks[k].answer =
                      SpaceJoined(SelectSeq(<<LineText(a)>>, LAMBDA t : t # <<>>)
                                  \o [n \in 1..Len(conts) |-> FileLines[conts[n]]])

\* a pair whose answer goes on after a blank line
C13_Witness ==
    /\ SplitDone
    /\ Len(FileLines) = 4
    /\ IsQLine(1) /\ IsALine(2) /\ LineText(2) # <<>>
    /\ FileLines[3] = <<>>
    /\ IsPlainLine(4)
    /\ Len(chunks) = 1
    /\ chunks[1].answer = LineText(2) \o <<SP>> \o FileLines[4]

\* C14: the chunks are emitted in source order and the i-th chunk, counted
\* from 0, is stored under the id made from i: after a run that loaded a
\* text into an empty index, entry n of the index is the n-th complete pair
\* of the text under the id kb_chunk_(n-1), and its text is not empty and is
\* the question, a space and the answer.
C14_SourceOrderAndPositionalIds ==
    (SplitDone /\ LastRun.outcome = "loaded" /\ LastRun.before.docs = <<>>) =>
        LET docs == collection.docs
            pairs == InOrder(CompletePairs)
        IN  /\ Len(docs) = Len(pairs)
            /\ Len(chunks) = Len(pairs)
            /\ \A n \in 1..Len(docs) :
                  /\ docs[n].id = <<"kb_chunk_", n - 1>>
                  /\ docs[n].question = LineText(pairs[n])
                  /\ docs[n].answer = AnswerOf(pairs[n])
                  /\ docs[n].text # <<>>
                  /\ docs[n].text = docs[n].question \o <<SP>> \o docs[n].answer
                  /\ chunks[n].text = docs[n].text

\* two pairs with different questions, stored under kb_chunk_0 and kb_chunk_1
C14_Witness ==
    /\ SplitDone /\ LastRun.outcome = "loaded"
    /\ Len(collection.docs) = 2
    /\ collection.docs[1].id = <<"kb_chunk_", 0>>
    /\ collection.docs[2].id = <<"kb_chunk_", 1>>
    /\ collection.docs[1].question # collection.docs[2].question
    /\ IsQLine(1) /\ collection.docs[1].question = LineText(1)

\* the first A: line after the Q: line q
FirstALine(q) == CHOOSE n \in ALinesOf(q) : \A m \in ALinesOf(q) : n <= m

\* the lines without a prefix between the Q: line q and its first A: line
DroppedLines(q) == {n \in (q + 1)..(FirstALine(q) - 1) : IsPlainLine(n)}

\* the lexemes of a text that are not blanks
Words(t) == SelectSeq(t, LAMBDA x : ~IsSpace(x))

RECURSIVE WordsOfLines(_)
\* the words of the lines at these positions, each line after its prefix
WordsOfLines(ns) ==
    IF ns = <<>> THEN <<>>
    ELSE (IF IsALine(Head(ns)) THEN Words(LineText(Head(ns)))
          ELSE Words(FileLines[Head(ns)]))
         \o WordsOfLines(Tail(ns))

\* C26: when several A: lines occur after one Q: line and before the next
\* Q: line, each later A: line replaces the answer accumulated so far, its
\* continuation lines included: the answer of the emitted chunk consists of
\* the last A: line and the continuation lines after it only; the lines
\* without a prefix between a Q: line and its first A: line are dropped and
\* are part of neither the question nor the answer.
C26_LaterAnswerReplacesEarlier ==
    SplitDone =>
        /\ Len(chunks) = Cardinality(CompletePairs)
        /\ \A k \in 1..Len(chunks) :
              LET q == InOrder(CompletePairs)[k]
                  a == LastALine(q)
                  kept == InOrder({a} \cup {n \in (a + 1)..PairEnd(q) : IsPlainLine(n)})
              IN  (Cardinality(ALinesOf(q)) > 1 \/ DroppedLines(q) # {}) =>
                    /\ Words(chunks[k].answer) = WordsOfLines(kept)
                    /\ Words(chunks[k].question) = Words(LineText(q))
                    /\ chunks[k].text = LineText(q) \o <<SP>> \o chunks[k].answer

\* an answer with a continuation line, then a second A: line: the chunk's
\* answer is the text of the second A: line alone
C26_Witness ==
    /\ SplitDone
    /\ Len(FileLines) = 4
    /\ IsQLine(1) /\ LineText(1) # <<>>
    /\ IsALine(2) /\ LineText(2) # <<>>
    /\ IsPlainLine(3)
    /\ IsALine(4) /\ LineText(4) # <<>>
    /\ Len(chunks) = 1
    /\ chunks[1].answer = LineText(4)

(***************************************************************************)
(* Claims about the index across runs of setup_and_run_rag and calls of    *)
(* _query_knowledge_base, checked under SpecRag                            *)
(***************************************************************************)
\* _query_knowledge_base has returned since the last run
Queried == retrieved_knowledge # <<>>

NoKnowledgeSentinel == <<"No knowledge base available.">>
NoMatchSentinel == <<"No relevant information found in knowledge base.">>

\* the file of a run gives the index nothing to store
NothingToIngest(run) ==
    \/ run.knowledge_file.kind \in {"missing", "unreadable"}
    \/ split_knowledge_base(run.knowledge_file.content) = <<>>

\* C15: a query against an index that is uninitialized or holds no chunks
\* returns the "no knowledge available" sentinel, a query against an index
\* that holds at least one chunk never returns it, and the two sentinels are
\* different texts.
C15_NoKnowledgeSentinelIffNoChunks ==
    /\ NoKnowledgeSentinel # NoMatchSentinel
    /\ Queried =>
          /\ (~collection.open \/ collection.docs = <<>>)
                => retrieved_knowledge = NoKnowledgeSentinel
          /\ collection.docs # <<>> => retrieved_knowledge # NoKnowledgeSentinel

\* C16: a run of setup_and_run_rag on a missing or unreadable file, or on a
\* file without a chunk, does not raise and leaves the index in the "no
\* knowledge" state it was in before: the handle is unchanged and a query
\* after it returns the "no knowledge available" sentinel.
C16_FailedIngestionLeavesNoKnowledge ==
    (rag_runs # <<>> /\ LastRun.before = NoCollection /\ NothingToIngest(LastRun)) =>
        /\ ~LastRun.raised
        /\ collection = LastRun.before
        /\ Queried => retrieved_knowledge = NoKnowledgeSentinel

\* the run before the last one
PrevRun == rag_runs[Len(rag_runs) - 1]

\* the last two runs read the same text, the first of them loaded it into an
\* empty index, and the chromadb client served the second
SameFileTwice ==
    /\ Len(rag_runs) >= 2
    /\ PrevRun.knowledge_file = LastRun.knowledge_file
    /\ PrevRun.outcome = "loaded"
    /\ PrevRun.before.docs = <<>>
    /\ LastRun.client = "served"

\* C17: running setup_and_run_rag twice on the same knowledge file leaves the
\* index with the same ids, and the same question, answer and text under each
\* id, as running it once: no entry is there twice, and the second run ends
\* without an error.
C17_SameFileTwiceIsOnce ==
    SameFileTwice =>
        /\ collection = LastRun.before
        /\ collection.docs = kb_entries(split_knowledge_base(LastRun.knowledge_file.content))
        /\ Cardinality(StoredIds(collection.docs)) = Len(collection.docs)
        /\ LastRun.outcome = "loaded"
        /\ ~LastRun.raised

\* the two pairs of a text, loaded twice
C17_Witness ==
    /\ SameFileTwice
    /\ Len(chunks) = 2
    /\ Len(collection.docs) = 2
    /\ collection.docs[1].id # collection.docs[2].id

\* C18: after the re-ingestion of a changed text the index holds exactly the
\* chunks of the latest text: each positional id maps to the latest chunk at
\* that position, and no chunk of the earlier run is left when the latest
\* text has fewer chunks.
C18_ReingestionReplaces ==
    (Len(rag_runs) >= 2 /\ LastRun.outcome = "loaded") =>
        collection.docs = kb_entries(chunks)

(***************************************************************************)
(* Claims about the startup hook, the index during a request and the order *)
(* of the calls of process_emails, checked under Spec                      *)
(***************************************************************************)
\* the run of setup_and_run_rag the startup hook made has returned
IngestionComplete == Len(rag_runs) = 1 /\ LastRun.outcome # "running"

\* process_emails has been entered
InRequest == pc \in {"analyze", "respond", "build", "finish", "done"}

\* the positions of the log at which the index was queried
QueryEntries == {n \in 1..Len(log) : log[n].op = "query"}

\* C21: ingestion and querying never interleave: the run of setup_and_run_rag
\* in the startup hook has completed, successfully or not, before any
\* process_emails request issues a query against the index, and no write of
\* the ingestion happens while a query is in progress.
C21_IngestionCompleteBeforeQueries ==
    /\ (InRequest \/ log # <<>>) => IngestionComplete
    /\ pc \in {"startup", "ingesting"} => QueryEntries = {}

\* a query was issued against the two chunks the hook had loaded
C21_Witness ==
    /\ pc = "build"
    /\ QueryEntries # {}
    /\ LastRun.outcome = "loaded"
    /\ Len(collection.docs) = 2

\* the index the startup hook left: the handle and the stored chunks
IndexAtStartup ==
    setup_and_run_rag(LastRun.before, LastRun.knowledge_file, LastRun.client).collection

\* C22: processing a batch leaves the shared index unchanged: on every path
\* through analyze_email_content, _query_knowledge_base and
\* generate_contextual_response, every fallback and every skipped message
\* included, the handle and the stored chunks are during and after
\* process_emails what they were before it.
C22_BatchLeavesIndexUnchanged ==
    InRequest => collection = IndexAtStartup

\* the first message was skipped, the query for the second raised, and the
\* index still holds the two chunks
C22_Witness ==
    /\ pc = "build" /\ idx = 2
    /\ SkippedIds = {1}
    /\ retrieved_knowledge = <<"Error retrieving knowledge base information.">>
    /\ collection.open /\ Len(collection.docs) = 2

\* the operations logged for message i, in order
MsgOps(i) ==
    LET IsOfMsg(entry) == entry.msg = i
        own == SelectSeq(log, IsOfMsg)
    IN  [n \in 1..Len(own) |-> own[n].op]

\* analyze_email_content raised for message i
AnalysisRaised(i) == [msg |-> i, cause |-> "analyze"] \in skipped

\* C23: for each message process_emails classifies, then queries the index
\* once with the summary of that message's Analysis as query text, then
\* generates the response; the query and the generation of a message never
\* start before its Analysis is returned (a message whose classification
\* raised has neither), and the steps of a message all finish before the
\* classification of the next message starts.
C23_ClassifyQueryGenerateInOrder ==
    /\ \A n, m \in 1..Len(log) : n < m => log[n].msg <= log[m].msg
    /\ \A i \in 1..Len(emails) :
          MsgOps(i) =
              (IF i > idx \/ (i = idx /\ pc = "analyze") THEN <<>>
               ELSE IF i = idx /\ pc = "respond" THEN <<"analyze.generate_content">>
               ELSE IF AnalysisRaised(i) THEN <<"analyze.generate_content">>
               ELSE <<"analyze.generate_content", "query", "respond.generate_content">>)
    /\ pc = "build" =>
          \A n \in QueryEntries :
              log[n].msg = idx => log[n].arg = Get(analysis.v, K_summary)

\* the second message of a batch: its three calls follow the three of the
\* first, and the query text is the summary of its Analysis
C23_Witness ==
    /\ pc = "build" /\ idx = 2
    /\ Len(log) = 6
    /\ log[4].op = "analyze.generate_content" /\ log[4].msg = 2
    /\ log[5].op = "query" /\ log[5].arg = Get(analysis.v, K_summary)
    /\ log[6].op = "respond.generate_content"

\* C25: with no message fetched process_emails returns a successful result
\* with an empty record list and total_count, urgent_count and
\* negative_sentiment_count all 0, invokes neither analyze_email_content nor
\* generate_contextual_response, and does not answer with the HTTP 500 of
\* the zero-success test.
C25_EmptyBatchIsEmptySuccess ==
    (Done /\ emails = <<>>) =>
        /\ result.status = "ok"
        /\ result.emails = <<>>
        /\ result.total_count = 0
        /\ result.urgent_count = 0
        /\ result.negative_sentiment_count = 0
        /\ log = <<>>
        /\ analysis = NotCalled /\ draft_response = NotCalled
        /\ result # HTTP500

\* the empty list was fetched and answered
C25_Witness ==
    /\ Done /\ emails = <<>>
    /\ IngestionComplete
    /\ result = ProcessEmailsResponse(<<>>, 0, 0, 0)

=============================================================================
